---- MODULE Spec2Model ----
(***************************************************************************)
(* A model of auto_codebase_indexer.py: the chunk splitter, the file       *)
(* summarizer, the recursive directory walker and the driver.              *)
(*                                                                         *)
(* Text is a sequence of pieces.  File contents, file names and            *)
(* extensions are sequences of one-character strings, so that the regular  *)
(* expression, strip(), lower(), splitext() and the ordering used by       *)
(* sorted() are computed character by character.  Fixed literals of the    *)
(* program (prompt headers, tags of index lines) are single pieces.        *)
(***************************************************************************)
EXTENDS Integers, Sequences, FiniteSets, TLC

VARIABLES
    fs,        \* the filesystem tree the program runs on (read only)
    stack,     \* the call stack, innermost frame last
    retval,    \* the value returned by the outermost frame
    calls,     \* every llm_call issued, in order, with its result
    reads,     \* every open(file_path, 'r') attempted, in order
    printed,   \* the messages print()ed by main, in order
    output     \* the output file: "absent", "empty" (truncated), or its text

vars == <<fs, stack, retval, calls, reads, printed, output>>

(***************************************************************************)
(* Bounds of the model.                                                    *)
(***************************************************************************)
\* Contents handed to the chunk splitter are made of at most this many segments.
MaxSegments == 4
\* The largest max_chunk_length handed to the chunk splitter.
MaxChunkLength == 6
\* Contents of the file handed to summarize_file alone: at most this many segments.
MaxFileSegments == 2
\* Directories nest at most this deep below the root.
MaxDepth == 2
\* The source sets DIRECT_SUMMARY_THRESHOLD = 10000 characters; the model
\* scales the threshold down so that contents around it can be enumerated.
DIRECT_SUMMARY_THRESHOLD == 3

(***************************************************************************)
(* Characters and strings.                                                 *)
(***************************************************************************)
Min(a, b) == IF a < b THEN a ELSE b

\* str.isspace() on the characters the model uses
IsSpace(c) == c \in {" ", "\n"}

\* ord(c) for the characters that occur in file names
Ord(c) ==
    CASE c = "." -> 46
      [] c = "B" -> 66
      [] c = "P" -> 80
      [] c = "Y" -> 89
      [] c = "a" -> 97
      [] c = "c" -> 99
      [] c = "j" -> 106
      [] c = "o" -> 111
      [] c = "p" -> 112
      [] c = "r" -> 114
      [] c = "t" -> 116
      [] c = "x" -> 120
      [] c = "y" -> 121

\* str.lower(), character by character
LowerChar(c) ==
    CASE c = "B" -> "b"
      [] c = "P" -> "p"
      [] c = "Y" -> "y"
      [] OTHER -> c

Lower(s) == [i \in 1..Len(s) |-> LowerChar(s[i])]

RECURSIVE LStrip(_)
LStrip(s) ==
    IF s # <<>> /\ IsSpace(Head(s)) THEN LStrip(Tail(s)) ELSE s

RECURSIVE RStrip(_)
RStrip(s) ==
    IF s # <<>> /\ IsSpace(s[Len(s)]) THEN RStrip(SubSeq(s, 1, Len(s) - 1)) ELSE s

\* str.strip()
Strip(s) == RStrip(LStrip(s))

\* sep.join(items), each item and sep being a text
RECURSIVE Join(_, _)
Join(sep, items) ==
    IF items = <<>> THEN <<>>
    ELSE IF Len(items) = 1 THEN Head(items)
    ELSE Head(items) \o sep \o Join(sep, Tail(items))

\* a < b for str: the first differing character decides, a proper prefix is smaller
RECURSIVE StrLess(_, _)
StrLess(a, b) ==
    IF b = <<>> THEN FALSE
    ELSE IF a = <<>> THEN TRUE
    ELSE IF Head(a) = Head(b) THEN StrLess(Tail(a), Tail(b))
    ELSE Ord(Head(a)) < Ord(Head(b))

(***************************************************************************)
(* split_into_logical_chunks                                               *)
(***************************************************************************)
KwDef == <<"d", "e", "f", " ">>
KwClass == <<"c", "l", "a", "s", "s", " ">>
ExtPy == <<".", "p", "y">>

StartsWithAt(s, p, kw) ==
    /\ p + Len(kw) - 1 <= Len(s)
    /\ SubSeq(s, p, p + Len(kw) - 1) = kw

\* The empty match of (?=^(def |class )) under re.MULTILINE at position p (1-based)
PatternMatchesAt(s, p) ==
    /\ p = 1 \/ s[p - 1] = "\n"
    /\ StartsWithAt(s, p, KwDef) \/ StartsWithAt(s, p, KwClass)

\* The text captured by the group of the pattern
PatternGroup(s, p) == IF StartsWithAt(s, p, KwDef) THEN KwDef ELSE KwClass

\* pattern.split(s): the text between matches, each match followed by its group
RECURSIVE SplitFrom(_, _, _)
SplitFrom(s, last, p) ==
    IF p > Len(s) THEN <<SubSeq(s, last, Len(s))>>
    ELSE IF PatternMatchesAt(s, p)
         THEN <<SubSeq(s, last, p - 1), PatternGroup(s, p)>> \o SplitFrom(s, p, p + 1)
         ELSE SplitFrom(s, last, p + 1)

PatternSplit(s) == SplitFrom(s, 1, 1)

\* [s[i:i + n] for i in range(0, len(s), n)]
RECURSIVE FixedSlices(_, _)
FixedSlices(s, n) ==
    IF s = <<>> THEN <<>>
    ELSE <<SubSeq(s, 1, Min(n, Len(s)))>> \o FixedSlices(SubSeq(s, n + 1, Len(s)), n)

\* The loop over parts, were a part longer than max_chunk_length kept whole
RECURSIVE ChunksOfPartsUnsliced(_, _)
ChunksOfPartsUnsliced(parts, max_chunk_length) ==
    IF parts = <<>> THEN <<>>
    ELSE LET part == Strip(Head(parts))
             rest == ChunksOfPartsUnsliced(Tail(parts), max_chunk_length)
         IN  IF part = <<>> THEN rest ELSE <<part>> \o rest

\* The loop over parts of the ".py" branch
RECURSIVE ChunksOfParts(_, _)
ChunksOfParts(parts, max_chunk_length) ==
    IF parts = <<>> THEN <<>>
    ELSE LET part == Strip(Head(parts))
             rest == ChunksOfParts(Tail(parts), max_chunk_length)
         IN  IF part = <<>> THEN rest
             ELSE IF Len(part) > max_chunk_length
                  THEN FixedSlices(part, max_chunk_length) \o rest
                  ELSE <<part>> \o rest

split_into_logical_chunks(file_content, file_extension, max_chunk_length) ==
    IF Lower(file_extension) = ExtPy
    THEN ChunksOfParts(PatternSplit(file_content), max_chunk_length)
    ELSE IF Len(file_content) > max_chunk_length
         THEN FixedSlices(file_content, max_chunk_length)
         ELSE <<file_content>>

(***************************************************************************)
(* The filesystem.  A path is a sequence of names, a name a sequence of    *)
(* characters.  A node is a regular file, a directory, or something else   *)
(* (a special file, a dangling link).  `ok` says whether a file can be     *)
(* read, or a directory listed.                                            *)
(***************************************************************************)
NameB == <<"B", ".", "P", "Y">>
NameA == <<"a">>
NameC == <<"c", ".", "p", "y">>
RootName == <<"p", "r", "o", "j">>

\* The names a root directory may hold, and those a directory below it may hold
Names == {NameB, NameA, NameC}
SubNames == {NameA}

NoEntries == <<>>
File(ok, content) == [kind |-> "file", ok |-> ok, content |-> content, entries |-> NoEntries]
Dir(ok, entries) == [kind |-> "dir", ok |-> ok, content |-> <<>>, entries |-> entries]
Other == [kind |-> "other", ok |-> FALSE, content |-> <<>>, entries |-> NoEntries]
Absent == [kind |-> "absent", ok |-> FALSE, content |-> <<>>, entries |-> NoEntries]

\* n copies of the character c
RECURSIVE Rep(_, _)
Rep(c, n) == IF n = 0 THEN <<>> ELSE <<c>> \o Rep(c, n - 1)

\* Exactly at the threshold, and one character over it
SmallContent == Rep("x", DIRECT_SUMMARY_THRESHOLD)
LargeContent == Rep("x", DIRECT_SUMMARY_THRESHOLD + 1)

\* What a directory below the root may hold besides directories: a file at the
\* threshold, an unreadable file, something that is neither file nor directory
Leaves == {File(TRUE, SmallContent), File(FALSE, <<>>), Other}

\* A directory that cannot be listed although a file lies beneath it
UnlistableDir == Dir(FALSE, NameA :> File(TRUE, SmallContent))

EntryMaps(names, nodes) == UNION {[D -> nodes] : D \in SUBSET names}

\* The nodes that may lie k levels above the deepest level
RECURSIVE Trees(_)
Trees(k) ==
    Leaves \cup {UnlistableDir} \cup
    (IF k = 0 THEN {Dir(TRUE, NoEntries)}
     ELSE {Dir(TRUE, e) : e \in EntryMaps(SubNames, Trees(k - 1))})

\* What the root path may be: a directory (which may also hold files over the
\* threshold), a regular file, or nothing
Roots ==
    {Dir(TRUE, e) : e \in EntryMaps(Names, Trees(MaxDepth - 1) \cup {File(TRUE, LargeContent)})}
        \cup {UnlistableDir, File(TRUE, SmallContent), Absent}

\* The node at path rel below node
RECURSIVE NodeBelow(_, _)
NodeBelow(node, rel) ==
    IF rel = <<>> THEN node
    ELSE IF node.kind = "dir" /\ Head(rel) \in DOMAIN node.entries
         THEN NodeBelow(node.entries[Head(rel)], Tail(rel))
         ELSE Absent

\* Every path starts with the root's name
NodeAt(path) == NodeBelow(fs, Tail(path))

isdir(path) == NodeAt(path).kind = "dir"
isfile(path) == NodeAt(path).kind = "file"
basename(path) == path[Len(path)]
join(directory, entry) == Append(directory, entry)

\* The index of the last "." of name that is not among its leading dots, or 0
RECURSIVE LastDot(_, _)
LastDot(name, i) ==
    IF i = 0 THEN 0
    ELSE IF name[i] = "." THEN i
    ELSE LastDot(name, i - 1)

\* os.path.splitext(path)[1]
splitext(path) ==
    LET name == basename(path)
        dot == LastDot(name, Len(name))
    IN  IF dot = 0 \/ \A i \in 1..dot : name[i] = "." THEN <<>>
        ELSE SubSeq(name, dot, Len(name))

\* The orders in which os.listdir may enumerate a set of names
Enumerations(S) ==
    {s \in [1..Cardinality(S) -> S] : \A i, j \in 1..Cardinality(S) : i # j => s[i] # s[j]}

RECURSIVE Insert(_, _)
Insert(x, s) ==
    IF s = <<>> THEN <<x>>
    ELSE IF StrLess(x, Head(s)) THEN <<x>> \o s
    ELSE <<Head(s)>> \o Insert(x, Tail(s))

\* sorted(names)
RECURSIVE sorted(_)
sorted(s) == IF s = <<>> THEN <<>> ELSE Insert(Head(s), sorted(Tail(s)))

(***************************************************************************)
(* The collaborator and the texts the program builds.                      *)
(***************************************************************************)
DirectMaxTokens == 150
ChunkMaxTokens == 150
SynthMaxTokens == 200
Temperature == "0.5"
SystemMessage == "You are a code summarization assistant."
DirectHeader == "Please provide a concise summary of the following code:\n\n"
ChunkHeader == "Please provide a brief summary of the following code chunk (part "
ChunkHeaderEnd == "):\n\n"
SynthHeader ==
    "Please synthesize the following chunk summaries into one overall summary for the entire file:\n\n"
Newline == <<"\n">>

\* What the collaborator may answer; it is opaque to the program, which only
\* passes the answer on.  It may also raise (LlmRaises).
Responses == {<<"S1">>, <<"S2">>}
LlmError == "llm_call failed"
ReadError == "[Errno 13] Permission denied"
ListError == "[Errno 13] Permission denied"
ReadErrorPrefix == "Error reading file: "

IndentUnit == <<" ", " ", " ", " ">>

\* "    " * indent
RECURSIVE indent_str(_)
indent_str(indent) == IF indent = 0 THEN <<>> ELSE IndentUnit \o indent_str(indent - 1)

\* An index line: the string appended to index_lines, and the path it is about.
\* Paths carry no trailing separator, so os.path.basename(directory) is not empty.
DirectoryLine(directory, indent) ==
    [text |-> indent_str(indent) \o <<"Directory: ">> \o basename(directory),
     path |-> directory]

ListErrorLine(directory, indent) ==
    [text |-> indent_str(indent) \o IndentUnit \o <<"Error reading directory: ", ListError>>,
     path |-> directory]

FileLine(directory, indent, entry) ==
    [text |-> indent_str(indent) \o IndentUnit \o <<"File: ">> \o entry,
     path |-> join(directory, entry)]

\* The Summary line, were it indented like its File line
SummaryLineShallow(directory, indent, entry, file_summary) ==
    [text |-> indent_str(indent) \o IndentUnit \o <<"Summary: ">> \o file_summary,
     path |-> join(directory, entry)]

SummaryLine(directory, indent, entry, file_summary) ==
    [text |-> indent_str(indent) \o IndentUnit \o IndentUnit \o <<"Summary: ">> \o file_summary,
     path |-> join(directory, entry)]

\* build_library_index: "\n".join(index_lines)
build_library_index(index_lines) ==
    Join(Newline, [i \in 1..Len(index_lines) |-> index_lines[i].text])

(***************************************************************************)
(* Frames of the call stack.                                               *)
(***************************************************************************)
MainFrame(root_directory) ==
    [fn |-> "main", pc |-> "start", root_directory |-> root_directory,
     index_lines |-> <<>>, final_index |-> <<>>]

DirectoryFrame(directory, indent) ==
    [fn |-> "process_directory", pc |-> "list", directory |-> directory, indent |-> indent,
     index_lines |-> <<>>, entries |-> <<>>, i |-> 1]

FileFrame(file_path) ==
    [fn |-> "summarize_file", pc |-> "open", file_path |-> file_path, file_content |-> <<>>,
     split_called |-> FALSE, chunks |-> <<>>, idx |-> 0, chunk_summaries |-> <<>>]

SplitFrame(file_content, file_extension, max_chunk_length) ==
    [fn |-> "split_into_logical_chunks", pc |-> "start", file_content |-> file_content,
     file_extension |-> file_extension, max_chunk_length |-> max_chunk_length]

Top == stack[Len(stack)]
Callers == SubSeq(stack, 1, Len(stack) - 1)
Running(fn, pc) == stack # <<>> /\ Top.fn = fn /\ Top.pc = pc

NoValue == [kind |-> "none", value |-> <<>>]
Returned(value) == [kind |-> "returned", value |-> value]
Raised(e) == [kind |-> "raised", value |-> <<e>>]

\* The caller's frame once the call it waits for has returned value
Resume(c, value) ==
    IF c.fn = "main"
    THEN \* lines 162-163 and 182: final_index = build_library_index(...)
         [c EXCEPT !.index_lines = value, !.final_index = build_library_index(value),
                   !.pc = "write"]
    ELSE IF c.pc = "in_dir"
    THEN \* line 143: index_lines.extend(...)
         [c EXCEPT !.index_lines = @ \o value, !.i = @ + 1, !.pc = "loop"]
    ELSE \* lines 146-148: the File line, then the Summary line
         [c EXCEPT !.index_lines =
                       @ \o <<FileLine(c.directory, c.indent, c.entries[c.i]),
                              SummaryLine(c.directory, c.indent, c.entries[c.i], value)>>,
                   !.i = @ + 1, !.pc = "loop"]

\* The innermost frame returns value to its caller.  The outermost frame stays on
\* the stack once it has finished, so that its arguments remain visible.
Finished(f, pc) == <<[f EXCEPT !.pc = pc]>>

Return(value) ==
    IF Callers = <<>>
    THEN stack' = Finished(Top, "returned") /\ retval' = Returned(value)
    ELSE /\ stack' = [Callers EXCEPT ![Len(Callers)] = Resume(@, value)]
         /\ UNCHANGED retval

\* An exception nothing catches below main: main's handler prints one message
Propagate(e) ==
    IF stack[1].fn = "main"
    THEN /\ stack' = Finished(stack[1], "done")
         /\ printed' = Append(printed, <<"An error occurred during processing: ", e>>)
         /\ UNCHANGED retval
    ELSE /\ stack' = Finished(stack[1], "raised")
         /\ retval' = Raised(e)
         /\ UNCHANGED printed

(***************************************************************************)
(* summarize_file                                                          *)
(***************************************************************************)
\* The test of line 91, were it strict (<)
AfterReadStrict(f, file_content) ==
    IF Len(file_content) < DIRECT_SUMMARY_THRESHOLD
    THEN [f EXCEPT !.file_content = file_content, !.pc = "direct"]
    ELSE LET chunks == split_into_logical_chunks(file_content, splitext(f.file_path),
                                                 DIRECT_SUMMARY_THRESHOLD)
         IN  [f EXCEPT !.file_content = file_content, !.split_called = TRUE,
                       !.chunks = chunks,
                       !.pc = IF chunks = <<>> THEN "synth" ELSE "chunk"]

\* Lines 91 and 98-99: after the read, one direct call or the chunk calls
AfterRead(f, file_content) ==
    IF Len(file_content) <= DIRECT_SUMMARY_THRESHOLD
    THEN [f EXCEPT !.file_content = file_content, !.pc = "direct"]
    ELSE LET chunks == split_into_logical_chunks(file_content, splitext(f.file_path),
                                                 DIRECT_SUMMARY_THRESHOLD)
         IN  [f EXCEPT !.file_content = file_content, !.split_called = TRUE,
                       !.chunks = chunks,
                       !.pc = IF chunks = <<>> THEN "synth" ELSE "chunk"]

\* Lines 82-84: the file is read
ReadFile ==
    /\ Running("summarize_file", "open")
    /\ NodeAt(Top.file_path).kind = "file"
    /\ NodeAt(Top.file_path).ok
    /\ reads' = Append(reads, Top.file_path)
    /\ stack' = [stack EXCEPT ![Len(stack)] = AfterRead(@, NodeAt(Top.file_path).content)]
    /\ UNCHANGED <<fs, retval, calls, printed, output>>

\* The failed read, were the error swallowed and the empty content summarized
ReadFileFailsIgnored ==
    /\ Running("summarize_file", "open")
    /\ ~(NodeAt(Top.file_path).kind = "file" /\ NodeAt(Top.file_path).ok)
    /\ reads' = Append(reads, Top.file_path)
    /\ stack' = [stack EXCEPT ![Len(stack)] = AfterRead(@, <<>>)]
    /\ UNCHANGED <<fs, retval, calls, printed, output>>

\* Lines 85-86: the read fails and the error string is returned
ReadFileFails ==
    /\ Running("summarize_file", "open")
    /\ ~(NodeAt(Top.file_path).kind = "file" /\ NodeAt(Top.file_path).ok)
    /\ reads' = Append(reads, Top.file_path)
    /\ Return(<<ReadErrorPrefix, ReadError>>)
    /\ UNCHANGED <<fs, calls, printed, output>>

\* The arguments of the call, were the chunks labelled from 0
CallArgsZeroBased(f) ==
    IF f.pc = "direct"
    THEN [prompt |-> <<DirectHeader>> \o f.file_content, system_message |-> SystemMessage,
          temperature |-> Temperature, max_tokens |-> DirectMaxTokens]
    ELSE IF f.pc = "chunk"
    THEN [prompt |-> <<ChunkHeader, ToString(f.idx), ChunkHeaderEnd>> \o f.chunks[f.idx + 1],
          system_message |-> SystemMessage,
          temperature |-> Temperature, max_tokens |-> ChunkMaxTokens]
    ELSE [prompt |-> <<SynthHeader>> \o Join(Newline, f.chunk_summaries),
          system_message |-> SystemMessage,
          temperature |-> Temperature, max_tokens |-> SynthMaxTokens]

\* The arguments of the llm_call the frame f is about to make
CallArgs(f) ==
    IF f.pc = "direct"
    THEN [prompt |-> <<DirectHeader>> \o f.file_content, system_message |-> SystemMessage,
          temperature |-> Temperature, max_tokens |-> DirectMaxTokens]
    ELSE IF f.pc = "chunk"
    THEN [prompt |-> <<ChunkHeader, ToString(f.idx + 1), ChunkHeaderEnd>> \o f.chunks[f.idx + 1],
          system_message |-> SystemMessage,
          temperature |-> Temperature, max_tokens |-> ChunkMaxTokens]
    ELSE [prompt |-> <<SynthHeader>> \o Join(Newline, f.chunk_summaries),
          system_message |-> SystemMessage,
          temperature |-> Temperature, max_tokens |-> SynthMaxTokens]

\* The record of one llm_call: its arguments, the file it was made for, its outcome
Call(f, raised, result) ==
    [args |-> CallArgs(f), file_path |-> f.file_path, raised |-> raised, result |-> result]

\* Lines 92-95: the direct summary is returned verbatim
DirectSummary ==
    /\ Running("summarize_file", "direct")
    /\ \E summary \in Responses :
          /\ calls' = Append(calls, Call(Top, FALSE, summary))
          /\ Return(summary)
    /\ UNCHANGED <<fs, reads, printed, output>>

\* Lines 101-106: one chunk is summarized
ChunkSummary ==
    /\ Running("summarize_file", "chunk")
    /\ \E chunk_summary \in Responses :
          /\ calls' = Append(calls, Call(Top, FALSE, chunk_summary))
          /\ stack' = [stack EXCEPT ![Len(stack)] =
                 [@ EXCEPT !.chunk_summaries = Append(@, chunk_summary),
                           !.idx = @ + 1,
                           !.pc = IF Top.idx + 1 = Len(Top.chunks) THEN "synth" ELSE "chunk"]]
    /\ UNCHANGED <<fs, retval, reads, printed, output>>

\* Lines 108-113: the synthesis call, whose result is returned
Synthesize ==
    /\ Running("summarize_file", "synth")
    /\ \E overall_summary \in Responses :
          /\ calls' = Append(calls, Call(Top, FALSE, overall_summary))
          /\ Return(overall_summary)
    /\ UNCHANGED <<fs, reads, printed, output>>

\* The collaborator raises: nothing between the call and main catches it
LlmRaises ==
    /\ stack # <<>>
    /\ Top.fn = "summarize_file"
    /\ Top.pc \in {"direct", "chunk", "synth"}
    /\ calls' = Append(calls, Call(Top, TRUE, <<>>))
    /\ Propagate(LlmError)
    /\ UNCHANGED <<fs, reads, output>>

(***************************************************************************)
(* process_directory                                                       *)
(***************************************************************************)
\* The listing, were it taken in the order os.listdir enumerates it
ListDirectoryUnsorted ==
    /\ Running("process_directory", "list")
    /\ NodeAt(Top.directory).ok
    /\ \E listing \in Enumerations(DOMAIN NodeAt(Top.directory).entries) :
          stack' = [stack EXCEPT ![Len(stack)] =
              [@ EXCEPT !.index_lines = <<DirectoryLine(Top.directory, Top.indent)>>,
                        !.entries = listing,
                        !.pc = "loop"]]
    /\ UNCHANGED <<fs, retval, calls, reads, printed, output>>

\* Lines 128-134: the Directory line, then the sorted listing
ListDirectory ==
    /\ Running("process_directory", "list")
    /\ NodeAt(Top.directory).ok
    /\ \E listing \in Enumerations(DOMAIN NodeAt(Top.directory).entries) :
          stack' = [stack EXCEPT ![Len(stack)] =
              [@ EXCEPT !.index_lines = <<DirectoryLine(Top.directory, Top.indent)>>,
                        !.entries = sorted(listing),
                        !.pc = "loop"]]
    /\ UNCHANGED <<fs, retval, calls, reads, printed, output>>

\* The failed listing, were the exception not caught
ListDirectoryFailsUncaught ==
    /\ Running("process_directory", "list")
    /\ ~NodeAt(Top.directory).ok
    /\ Propagate(ListError)
    /\ UNCHANGED <<fs, calls, reads, output>>

\* Lines 135-137: the listing fails; the Directory line and the error line are returned
ListDirectoryFails ==
    /\ Running("process_directory", "list")
    /\ ~NodeAt(Top.directory).ok
    /\ Return(<<DirectoryLine(Top.directory, Top.indent),
                ListErrorLine(Top.directory, Top.indent)>>)
    /\ UNCHANGED <<fs, calls, reads, printed, output>>

Entry == Top.entries[Top.i]

\* Lines 141-143: the entry is a directory
VisitDirectory ==
    /\ Running("process_directory", "loop")
    /\ Top.i <= Len(Top.entries)
    /\ isdir(join(Top.directory, Entry))
    /\ stack' = Append([stack EXCEPT ![Len(stack)] = [@ EXCEPT !.pc = "in_dir"]],
                       DirectoryFrame(join(Top.directory, Entry), Top.indent + 1))
    /\ UNCHANGED <<fs, retval, calls, reads, printed, output>>

\* The file branch, were it taken without the tests of lines 141 and 144
VisitAnyEntryAsFile ==
    /\ Running("process_directory", "loop")
    /\ Top.i <= Len(Top.entries)
    /\ stack' = Append([stack EXCEPT ![Len(stack)] = [@ EXCEPT !.pc = "in_file"]],
                       FileFrame(join(Top.directory, Top.entries[Top.i])))
    /\ UNCHANGED <<fs, retval, calls, reads, printed, output>>

\* Lines 144-146: the entry is a regular file
VisitFile ==
    /\ Running("process_directory", "loop")
    /\ Top.i <= Len(Top.entries)
    /\ ~isdir(join(Top.directory, Entry))
    /\ isfile(join(Top.directory, Entry))
    /\ stack' = Append([stack EXCEPT ![Len(stack)] = [@ EXCEPT !.pc = "in_file"]],
                       FileFrame(join(Top.directory, Entry)))
    /\ UNCHANGED <<fs, retval, calls, reads, printed, output>>

\* Lines 141 and 144 both false: the entry yields no line
SkipEntry ==
    /\ Running("process_directory", "loop")
    /\ Top.i <= Len(Top.entries)
    /\ ~isdir(join(Top.directory, Entry))
    /\ ~isfile(join(Top.directory, Entry))
    /\ stack' = [stack EXCEPT ![Len(stack)] = [@ EXCEPT !.i = @ + 1]]
    /\ UNCHANGED <<fs, retval, calls, reads, printed, output>>

\* Line 149
ReturnLines ==
    /\ Running("process_directory", "loop")
    /\ Top.i > Len(Top.entries)
    /\ Return(Top.index_lines)
    /\ UNCHANGED <<fs, calls, reads, printed, output>>

(***************************************************************************)
(* main                                                                    *)
(***************************************************************************)
\* Lines 177-179
RejectRoot ==
    /\ Running("main", "start")
    /\ ~isdir(Top.root_directory)
    /\ printed' = Append(printed,
           <<"Error: The provided root directory '">> \o basename(Top.root_directory)
               \o <<"' is not a valid directory.">>)
    /\ stack' = Finished(Top, "done")
    /\ UNCHANGED <<fs, retval, calls, reads, output>>

\* The start of the build, were the output file opened for writing before it
StartBuildOpensOutput ==
    /\ Running("main", "start")
    /\ isdir(Top.root_directory)
    /\ stack' = <<[Top EXCEPT !.pc = "build"], DirectoryFrame(Top.root_directory, 0)>>
    /\ output' = [exists |-> TRUE, text |-> <<>>]
    /\ UNCHANGED <<fs, retval, calls, reads, printed>>

\* Lines 181-182 and 162: the walk starts at the root with indent 0
StartBuild ==
    /\ Running("main", "start")
    /\ isdir(Top.root_directory)
    /\ stack' = <<[Top EXCEPT !.pc = "build"], DirectoryFrame(Top.root_directory, 0)>>
    /\ UNCHANGED <<fs, retval, calls, reads, printed, output>>

\* Lines 183-185: the index is written and the confirmation printed
WriteOutput ==
    /\ Running("main", "write")
    /\ output' = [exists |-> TRUE, text |-> Top.final_index]
    /\ printed' = Append(printed, <<"Library index prompt successfully written.">>)
    /\ stack' = Finished(Top, "done")
    /\ UNCHANGED <<fs, retval, calls, reads>>

\* Line 183 raises: the output file cannot be opened
OpenOutputFails ==
    /\ Running("main", "write")
    /\ printed' = Append(printed, <<"An error occurred during processing: ", "open failed">>)
    /\ stack' = Finished(Top, "done")
    /\ UNCHANGED <<fs, retval, calls, reads, output>>

\* Line 184 raises: the output file was opened for writing, so it is truncated
WriteFails ==
    /\ Running("main", "write")
    /\ output' = [exists |-> TRUE, text |-> <<>>]
    /\ printed' = Append(printed, <<"An error occurred during processing: ", "write failed">>)
    /\ stack' = Finished(Top, "done")
    /\ UNCHANGED <<fs, retval, calls, reads>>

(***************************************************************************)
(* The program: main run on a tree.                                        *)
(***************************************************************************)
NoOutput == [exists |-> FALSE, text |-> <<>>]

Init ==
    /\ fs \in Roots
    /\ stack = <<MainFrame(<<RootName>>)>>
    /\ retval = NoValue
    /\ calls = <<>>
    /\ reads = <<>>
    /\ printed = <<>>
    /\ output = NoOutput

Next ==
    \/ RejectRoot
    \/ StartBuild
    \/ ListDirectory
    \/ ListDirectoryFails
    \/ VisitDirectory
    \/ VisitFile
    \/ SkipEntry
    \/ ReturnLines
    \/ ReadFile
    \/ ReadFileFails
    \/ DirectSummary
    \/ ChunkSummary
    \/ Synthesize
    \/ LlmRaises
    \/ WriteOutput
    \/ OpenOutputFails
    \/ WriteFails

Spec == Init /\ [][Next]_vars

(***************************************************************************)
(* summarize_file run alone on one file, over a wider range of contents.   *)
(***************************************************************************)
Segments == {KwDef, KwClass, <<"\n">>, <<" ">>, <<"x">>}

\* The texts made of at most k segments
RECURSIVE Texts(_)
Texts(k) ==
    IF k = 0 THEN {<<>>}
    ELSE Texts(k - 1) \cup {t \o seg : t \in Texts(k - 1), seg \in Segments}

\* Over the threshold, and nothing but whitespace
BlankContent == Rep(" ", DIRECT_SUMMARY_THRESHOLD + 1)

FileContents == Texts(MaxFileSegments) \cup {SmallContent, LargeContent, BlankContent}

InitFile ==
    /\ \E name \in Names, node \in {File(TRUE, c) : c \in FileContents} \cup {File(FALSE, <<>>)} :
          /\ fs = Dir(TRUE, name :> node)
          /\ stack = <<FileFrame(<<RootName, name>>)>>
    /\ retval = NoValue
    /\ calls = <<>>
    /\ reads = <<>>
    /\ printed = <<>>
    /\ output = NoOutput

NextFile ==
    \/ ReadFile
    \/ ReadFileFails
    \/ DirectSummary
    \/ ChunkSummary
    \/ Synthesize
    \/ LlmRaises

SpecFile == InitFile /\ [][NextFile]_vars

(***************************************************************************)
(* split_into_logical_chunks run alone.                                    *)
(***************************************************************************)
Extensions == {ExtPy, <<".", "P", "Y">>, <<".", "t", "x", "t">>, <<>>}
ChunkLengths == {1, MaxChunkLength \div 2, MaxChunkLength}

\* Lines 47-68
SplitReturns ==
    /\ Running("split_into_logical_chunks", "start")
    /\ Return(split_into_logical_chunks(Top.file_content, Top.file_extension,
                                        Top.max_chunk_length))
    /\ UNCHANGED <<fs, calls, reads, printed, output>>

InitSplit ==
    /\ fs = Absent
    /\ \E file_content \in Texts(MaxSegments), file_extension \in Extensions,
          max_chunk_length \in ChunkLengths :
          stack = <<SplitFrame(file_content, file_extension, max_chunk_length)>>
    /\ retval = NoValue
    /\ calls = <<>>
    /\ reads = <<>>
    /\ printed = <<>>
    /\ output = NoOutput

NextSplit == SplitReturns

SpecSplit == InitSplit /\ [][NextSplit]_vars

(***************************************************************************)
(* Properties of split_into_logical_chunks (under SpecSplit).              *)
(***************************************************************************)
SplitDone == stack[1].fn = "split_into_logical_chunks" /\ stack[1].pc = "returned"

\* C1: every chunk returned by split_into_logical_chunks is at most
\* max_chunk_length characters long, whatever the content, the extension
\* (".py" in any letter case or another) and max_chunk_length >= 1.
C1_ChunksWithinMaxLength ==
    (SplitDone /\ stack[1].max_chunk_length >= 1) =>
        \A i \in 1..Len(retval.value) :
            Len(retval.value[i]) <= stack[1].max_chunk_length

\* An upper-case ".PY" content with a boundary, cut into windows of which one
\* is full and a later one shorter
C1_Witness ==
    /\ SplitDone
    /\ stack[1].file_extension = <<".", "P", "Y">>
    /\ stack[1].max_chunk_length = MaxChunkLength \div 2
    /\ \E p \in 2..Len(stack[1].file_content) : PatternMatchesAt(stack[1].file_content, p)
    /\ Len(retval.value) >= 3
    /\ \E i, j \in 1..Len(retval.value) :
          /\ i < j
          /\ Len(retval.value[i]) = stack[1].max_chunk_length
          /\ Len(retval.value[j]) < stack[1].max_chunk_length

\* The chunks lie in s from position pos on, in order, without overlap, and
\* what lies between them and after them is whitespace
RECURSIVE Covers(_, _, _)
Covers(s, pos, chunks) ==
    IF chunks = <<>> THEN \A i \in pos..Len(s) : IsSpace(s[i])
    ELSE \E k \in pos..(Len(s) + 1) :
            /\ \A i \in pos..(k - 1) : IsSpace(s[i])
            /\ StartsWithAt(s, k, Head(chunks))
            /\ Covers(s, k + Len(Head(chunks)), Tail(chunks))

\* C2: the chunks returned are non-overlapping contiguous substrings of the
\* content in document order, which make up the content but for whitespace
\* trimmed at the splits: no text appears in two chunks, no chunk is added.
C2_ChunksPartitionContent ==
    SplitDone => Covers(stack[1].file_content, 1, retval.value)

(***************************************************************************)
(* Properties of summarize_file (under SpecFile).                          *)
(***************************************************************************)
FileDone == stack[1].fn = "summarize_file" /\ stack[1].pc = "returned"
TheFile == NodeAt(stack[1].file_path)

\* C3: for a readable file longer than the threshold that splits into N
\* chunks, summarize_file makes exactly N+1 calls: the i-th carries chunk i
\* labelled part i (from 1), the last is the synthesis call whose prompt holds
\* the N chunk results in order joined by newlines, and its result is returned.
C3_ChunkCallsThenSynthesis ==
    (FileDone /\ TheFile.ok /\ Len(TheFile.content) > DIRECT_SUMMARY_THRESHOLD) =>
        LET chunks == split_into_logical_chunks(TheFile.content, splitext(stack[1].file_path),
                                                DIRECT_SUMMARY_THRESHOLD)
            N == Len(chunks)
            joined == Tail(calls[N + 1].args.prompt)
        IN  /\ Len(calls) = N + 1
            /\ \A i \in 1..N :
                  /\ calls[i].args.prompt =
                         <<ChunkHeader, ToString(i), ChunkHeaderEnd>> \o chunks[i]
                  /\ calls[i].args.max_tokens = ChunkMaxTokens
            /\ Head(calls[N + 1].args.prompt) = SynthHeader
            /\ calls[N + 1].args.max_tokens = SynthMaxTokens
            /\ Len(joined) = IF N = 0 THEN 0 ELSE 2 * N - 1
            /\ \A i \in 1..N : <<joined[2 * i - 1]>> = calls[i].result
            /\ \A i \in 1..(N - 1) : joined[2 * i] = "\n"
            /\ \A i \in 1..(N + 1) : ~calls[i].raised
            /\ retval = Returned(calls[N + 1].result)

\* A ".py" file of four chunks whose summaries differ
C3_Witness ==
    /\ FileDone
    /\ TheFile.ok
    /\ Lower(splitext(stack[1].file_path)) = ExtPy
    /\ Len(calls) = 5
    /\ calls[1].result # calls[2].result
    /\ retval = Returned(calls[5].result)

\* C4: for a readable file no longer than the threshold (exactly at it, or
\* empty, included) summarize_file makes exactly one call, with the whole
\* content, never calls the chunk splitter and returns the call's result.
C4_SingleDirectCall ==
    (FileDone /\ TheFile.ok /\ Len(TheFile.content) <= DIRECT_SUMMARY_THRESHOLD) =>
        /\ Len(calls) = 1
        /\ calls[1].args.prompt = <<DirectHeader>> \o TheFile.content
        /\ calls[1].args.max_tokens = DirectMaxTokens
        /\ ~calls[1].raised
        /\ ~stack[1].split_called
        /\ retval = Returned(calls[1].result)

\* A file of exactly DIRECT_SUMMARY_THRESHOLD characters, summarized
C4_Witness ==
    /\ FileDone
    /\ TheFile.ok
    /\ Len(TheFile.content) = DIRECT_SUMMARY_THRESHOLD
    /\ Len(calls) = 1
    /\ retval = Returned(calls[1].result)

(***************************************************************************)
(* Properties of the walk (under Spec).                                    *)
(***************************************************************************)
Root == stack[1].root_directory
MainDone == stack[1].fn = "main" /\ stack[1].pc = "done"

\* The list process_directory(root, 0) returned, once it has; Built holds in
\* the state it has just been returned in
Lines == stack[1].index_lines
Built == stack[1].fn = "main" /\ stack[1].pc = "write"

RECURSIVE LeadingSpaces(_)
LeadingSpaces(text) ==
    IF text # <<>> /\ Head(text) = " " THEN 1 + LeadingSpaces(Tail(text)) ELSE 0

\* An index line read back: its indentation, its tag, and what follows the tag
SpacesOf(line) == LeadingSpaces(line.text)
TagOf(line) == line.text[SpacesOf(line) + 1]
BodyOf(line) == SubSeq(line.text, SpacesOf(line) + 2, Len(line.text))

IsPrefix(p, q) == Len(p) <= Len(q) /\ SubSeq(q, 1, Len(p)) = p
Parent(path) == SubSeq(path, 1, Len(path) - 1)

\* The paths the walk comes to: the root, and the entries of every directory
\* that can be listed
RECURSIVE Reached(_, _)
Reached(node, path) ==
    {path} \cup
    (IF node.kind = "dir" /\ node.ok
     THEN UNION {Reached(node.entries[n], Append(path, n)) : n \in DOMAIN node.entries}
     ELSE {})

ReachedPaths == Reached(fs, Root)
ReachedFiles == {p \in ReachedPaths : NodeAt(p).kind = "file"}
ReachedDirs == {p \in ReachedPaths : NodeAt(p).kind = "dir"}

SomeCallRaised == \E i \in 1..Len(calls) : calls[i].raised

\* The walk ends without a top-level error unless a collaborator call raised
WalkCompletes == (MainDone /\ isdir(Root) /\ ~SomeCallRaised) => Lines # <<>>

\* Where p and q part, the entry of p is the smaller one
InEntryOrder(p, q) ==
    \A k \in 1..Min(Len(p), Len(q)) :
        (SubSeq(p, 1, k - 1) = SubSeq(q, 1, k - 1) /\ p[k] # q[k]) => StrLess(p[k], q[k])

\* C5: in every directory the lines of the entries (File lines and whole
\* Directory subtrees alike) come in lexicographic order of the entry names,
\* whatever order the listing enumerated them in, and the files are
\* summarized in that order.
C5_EntriesInLexicographicOrder ==
    /\ \A i, j \in 1..Len(calls) :
          i < j => InEntryOrder(calls[i].file_path, calls[j].file_path)
    /\ \A i, j \in 1..Len(reads) : i < j => InEntryOrder(reads[i], reads[j])
    /\ Built =>
          /\ \A i, j \in 1..Len(Lines) : i < j => InEntryOrder(Lines[i].path, Lines[j].path)
          /\ \A p \in ReachedFiles \cup ReachedDirs : \E i \in 1..Len(Lines) : Lines[i].path = p

\* A file, a directory holding a file, and another file, all indexed
C5_Witness ==
    /\ Built
    /\ isfile(<<RootName, NameB>>)
    /\ isfile(<<RootName, NameA, NameA>>)
    /\ isfile(<<RootName, NameC>>)
    /\ \E i, j, k \in 1..Len(calls) :
          /\ i < j /\ j < k
          /\ calls[i].file_path = <<RootName, NameB>>
          /\ calls[j].file_path = <<RootName, NameA, NameA>>
          /\ calls[k].file_path = <<RootName, NameC>>

\* Line i is the File line of p and line i + 1 its Summary line
FilePairAt(i, p) ==
    /\ i + 1 <= Len(Lines)
    /\ Lines[i].path = p /\ TagOf(Lines[i]) = "File: " /\ BodyOf(Lines[i]) = basename(p)
    /\ Lines[i + 1].path = p /\ TagOf(Lines[i + 1]) = "Summary: "

\* The result of the last call made for the file p
LastResult(p) ==
    LET made == {i \in 1..Len(calls) : calls[i].file_path = p}
    IN  calls[CHOOSE i \in made : \A j \in made : j <= i].result

\* C6: an unreadable file gets no collaborator call and the summary
\* "Error reading file: ..."; the walk goes on, and the output holds a File
\* line and a Summary line for it and for every other file, the other files'
\* summaries being what their own calls returned.
C6_UnreadableFileIsReportedInline ==
    /\ \A i \in 1..Len(calls) : NodeAt(calls[i].file_path).ok
    /\ WalkCompletes
    /\ Built =>
          \A p \in ReachedFiles :
              /\ Cardinality({i \in 1..Len(Lines) : FilePairAt(i, p)}) = 1
              /\ \A i \in 1..Len(Lines) :
                    FilePairAt(i, p) =>
                        IF NodeAt(p).ok
                        THEN BodyOf(Lines[i + 1]) = LastResult(p)
                        ELSE Head(BodyOf(Lines[i + 1])) = ReadErrorPrefix

\* An unreadable file between two readable ones, all three indexed
C6_Witness ==
    /\ Built
    /\ isfile(<<RootName, NameB>>) /\ NodeAt(<<RootName, NameB>>).ok
    /\ isfile(<<RootName, NameA>>) /\ ~NodeAt(<<RootName, NameA>>).ok
    /\ isfile(<<RootName, NameC>>) /\ NodeAt(<<RootName, NameC>>).ok
    /\ <<RootName, NameA>> \in {reads[i] : i \in 1..Len(reads)}
    /\ \E i \in 1..Len(Lines) :
          FilePairAt(i, <<RootName, NameA>>) /\ Head(BodyOf(Lines[i + 1])) = ReadErrorPrefix

\* C7: a directory that cannot be listed yields exactly its Directory line
\* and one "Error reading directory" line one level deeper, and nothing (no
\* line, no read, no call) for what lies beneath it; every other directory
\* and file the walk comes to, before and after it, still has its line.
C7_UnlistableDirectoryIsReportedInline ==
    /\ \A d \in ReachedDirs :
          ~NodeAt(d).ok =>
              /\ \A i \in 1..Len(calls) : ~IsPrefix(d, calls[i].file_path)
              /\ \A i \in 1..Len(reads) : ~IsPrefix(d, reads[i])
    /\ WalkCompletes
    /\ Built =>
          /\ \A d \in ReachedDirs :
                ~NodeAt(d).ok =>
                    \E i \in 1..(Len(Lines) - 1) :
                        /\ {j \in 1..Len(Lines) : IsPrefix(d, Lines[j].path)} = {i, i + 1}
                        /\ TagOf(Lines[i]) = "Directory: "
                        /\ BodyOf(Lines[i]) = basename(d)
                        /\ TagOf(Lines[i + 1]) = "Error reading directory: "
                        /\ SpacesOf(Lines[i + 1]) = SpacesOf(Lines[i]) + Len(IndentUnit)
          /\ \A d \in ReachedDirs :
                Cardinality({i \in 1..Len(Lines) :
                    /\ Lines[i].path = d
                    /\ TagOf(Lines[i]) = "Directory: "
                    /\ BodyOf(Lines[i]) = basename(d)}) = 1
          /\ \A p \in ReachedFiles :
                Cardinality({i \in 1..Len(Lines) :
                    Lines[i].path = p /\ TagOf(Lines[i]) = "File: "}) = 1

\* An unlistable directory with a file beneath it, between two indexed files
C7_Witness ==
    /\ Built
    /\ isfile(<<RootName, NameB>>)
    /\ NodeAt(<<RootName, NameA>>) = UnlistableDir
    /\ isfile(<<RootName, NameC>>)
    /\ Len(calls) >= 2
    /\ \E i \in 1..Len(Lines) : TagOf(Lines[i]) = "Error reading directory: "

\* C8: a directory at depth d has its Directory line indented by 4*d spaces
\* and its File lines by 4*(d+1); every File line is directly followed by
\* exactly one Summary line indented by 4*(d+2), and no Summary line stands
\* without a File line directly before it.
C8_IndentationAndPairing ==
    Built =>
        \A i \in 1..Len(Lines) :
            LET line == Lines[i]
                unit == Len(IndentUnit)
            IN  /\ TagOf(line) = "Directory: " =>
                      SpacesOf(line) = unit * (Len(line.path) - 1)
                /\ TagOf(line) = "File: " =>
                      /\ SpacesOf(line) = unit * (Len(line.path) - 1)
                      /\ i < Len(Lines)
                      /\ TagOf(Lines[i + 1]) = "Summary: "
                      /\ SpacesOf(Lines[i + 1]) = unit * Len(line.path)
                      /\ i + 2 <= Len(Lines) => TagOf(Lines[i + 2]) # "Summary: "
                /\ TagOf(line) = "Summary: " =>
                      /\ i > 1
                      /\ TagOf(Lines[i - 1]) = "File: "
                      /\ Lines[i - 1].path = line.path

\* A file in a directory of the root: File at 8 spaces, Summary at 12
C8_Witness ==
    /\ Built
    /\ \E i \in 1..(Len(Lines) - 1) :
          /\ TagOf(Lines[i]) = "File: "
          /\ Len(Lines[i].path) = 3
          /\ SpacesOf(Lines[i]) = 2 * Len(IndentUnit)
          /\ SpacesOf(Lines[i + 1]) = 3 * Len(IndentUnit)

\* The node is a listable directory and so is everything beneath it
RECURSIVE OnlyDirectories(_)
OnlyDirectories(node) ==
    /\ node.kind = "dir"
    /\ node.ok
    /\ \A n \in DOMAIN node.entries : OnlyDirectories(node.entries[n])

\* C9: a directory containing only subdirectories, no files, produces no
\* File line, only nested Directory lines.
C9_OnlySubdirectoriesGiveNoFileLines ==
    Built =>
        \A d \in ReachedDirs :
            /\ (NodeAt(d).ok /\ \A n \in DOMAIN NodeAt(d).entries :
                                   NodeAt(d).entries[n].kind = "dir") =>
                  \A i \in 1..Len(Lines) :
                      Parent(Lines[i].path) = d => TagOf(Lines[i]) \in
                          {"Directory: ", "Error reading directory: "}
            /\ OnlyDirectories(NodeAt(d)) =>
                  /\ \A i \in 1..Len(Lines) :
                        IsPrefix(d, Lines[i].path) => TagOf(Lines[i]) = "Directory: "
                  /\ \A e \in ReachedDirs :
                        IsPrefix(d, e) => \E i \in 1..Len(Lines) : Lines[i].path = e

\* A root holding one directory that holds one empty directory
C9_Witness ==
    /\ Built
    /\ fs = Dir(TRUE, NameA :> Dir(TRUE, NameA :> Dir(TRUE, NoEntries)))
    /\ Len(Lines) = 3

IsErrorMessage(m) ==
    Head(m) \in {"Error: The provided root directory '", "An error occurred during processing: "}

\* C10: the output file is opened only after the build has returned for a
\* root that is a directory.  If the root is no directory, or a collaborator
\* call raises, the output file is never created or changed, nothing is read
\* or summarized after the failure, and exactly one error message is printed.
C10_NoOutputOnFailure ==
    /\ []((~isdir(Root) \/ SomeCallRaised) =>
            /\ Len(printed) <= 1
            /\ MainDone => (Len(printed) = 1 /\ IsErrorMessage(printed[1])))
    /\ [](~isdir(Root) => (calls = <<>> /\ reads = <<>>))
    /\ [](SomeCallRaised => (MainDone /\ calls[Len(calls)].raised))
    /\ [][output' # output => (Built /\ isdir(Root) /\ ~SomeCallRaised)]_vars
    /\ [][(SomeCallRaised \/ (~isdir(Root) /\ MainDone)) =>
            UNCHANGED <<calls, reads, printed, output>>]_vars

\* The second file's call raises after the first file was summarized
C10_Witness ==
    /\ MainDone
    /\ Len(calls) >= 2
    /\ calls[Len(calls)].raised
    /\ Len(reads) >= 2
    /\ output = NoOutput
    /\ Len(printed) = 1

====
